---- MODULE Spec2Model ----
(***************************************************************************)
(* Model of metaseq/integration/chipseq.py:                                *)
(*   - class Chipseq: diff_array, plot and the pick-event callback;        *)
(*   - estimate_shift and xcorr (strand cross-correlation).                *)
(* Python's None / a missing attribute is the empty tuple <<>>, a set      *)
(* value v is the one-element tuple <<v>>.  A dict is a set of             *)
(* <<key, value>> pairs.  Python indices are 0-based; At0 reads a          *)
(* sequence with a 0-based index.                                          *)
(***************************************************************************)
EXTENDS Integers, Sequences, FiniteSets, TLC

\* ------------------------------------------------------------------ bounds
\* calls made on one Chipseq object (diff_array, plot and callback together)
MaxOps == 3
\* windows handed to estimate_shift (nwindows)
MaxWindows == 2
\* windowsize and 'bins' run over 1..MaxLen
MaxLen == 2
\* maxlag runs over 0..MaxLag
MaxLag == 3
\* thresh runs over the halves 0/2 .. MaxThresh/2
MaxThresh == 2

\* ------------------------------------------------------- program constants
limit == 5

\* ----------------------------------------------------------------- helpers
None == <<>>

At0(s, i) == s[i + 1]

Len0Ok(s, i) == i >= 0 /\ i < Len(s)

Reverse(s) == [k \in 1..Len(s) |-> s[Len(s) + 1 - k]]

HasKey(D, key) == \E p \in D : p[1] = key

DictGet(D, key) == (CHOOSE p \in D : p[1] = key)[2]

DictPop(D, key) == {p \in D : p[1] # key}

\* ------------------------------------------------------------------ inputs
\* feature lists of 1, 2 and limit + 1 features (features are numbered)
RowCounts == {1, 2, limit + 1}

FeatureLists == {[i \in 1..n |-> i] : n \in RowCounts}

\* the keyword values of the class docstring's example
ExampleKwargs == {<<"processes", 6>>, <<"chunksize", 50>>, <<"bins", 100>>}

\* the default mapping dict(), and the example with neither, one or both of
\* the parallelism keys
KwargsChoices ==
    {{},
     ExampleKwargs,
     DictPop(ExampleKwargs, "processes"),
     DictPop(ExampleKwargs, "chunksize")}

\* func=None selects metaseq.plotutils.nice_log
FuncChoices == {"None", "identity"}

\* the SignalSource call that raises during a diff_array call, if any
FailPoints == {"none", "ip.array", "control.array"}

\* row_order: None, or a permutation of 0..n-1 (identity, reversed, rotated)
RowOrderChoices(n) ==
    {None,
     [k \in 1..n |-> k - 1],
     [k \in 1..n |-> n - k],
     [k \in 1..n |-> k % n]}

\* a pick event carries the indices of the strip points within the pick
\* radius: a run of neighbouring points, in increasing order (or none)
IndChoices(n) ==
    {<<>>} \cup {[k \in 1..(hi - lo + 1) |-> lo + k - 1] :
                    lo \in 0..(n - 1), hi \in 0..(n - 1)}

\* ------------------------------------------------------------------- state
VARIABLES
    features,                       \* self.features
    browser_local_coverage_kwargs,  \* self.browser_local_coverage_kwargs
    ip_array,                       \* self.ip_array
    control_array,                  \* self.control_array
    diffed_array,                   \* self.diffed_array
    minibrowser,                    \* self.minibrowser
    db,                             \* self.db is set
    figs,                           \* figures made by plot: strip line, heatmap
    nops,                           \* calls made so far
    last,                           \* the last call: arguments and effects
    shift_in,                       \* arguments of estimate_shift / xcorr
    shift_out                       \* what the last of these calls returned

vars == <<features, browser_local_coverage_kwargs, ip_array, control_array,
          diffed_array, minibrowser, db, figs, nops, last, shift_in,
          shift_out>>

chipseq_vars == <<features, browser_local_coverage_kwargs, ip_array,
                  control_array, diffed_array, minibrowser, db, figs, nops,
                  last>>

shift_vars == <<shift_in, shift_out>>

NoCall ==
    [op |-> "init", outcome |-> "ok", features |-> <<>>, force |-> TRUE,
     array_kwargs |-> {}, array_kwargs_after |-> {},
     array_calls |-> <<>>, mmr_calls |-> <<>>,
     row_order |-> <<>>, fig |-> 0, ind |-> <<>>, notice |-> FALSE,
     printed |-> <<>>, plots |-> <<>>]

NoShiftInput ==
    [plus |-> <<>>, minus |-> <<>>, windowsize |-> 1, thresh |-> None,
     maxlag |-> 0, array_kwargs |-> None]

NoShiftOutput ==
    [op |-> "none", outcome |-> "ok", x |-> <<>>, y |-> <<>>, c |-> <<>>,
     lags |-> <<>>, results |-> <<>>]

Init ==
    /\ features = None
    /\ browser_local_coverage_kwargs = None
    /\ ip_array = None
    /\ control_array = None
    /\ diffed_array = None
    /\ minibrowser = None
    /\ db \in BOOLEAN
    /\ figs = <<>>
    /\ nops = 0
    /\ last = NoCall
    /\ shift_in = NoShiftInput
    /\ shift_out = NoShiftOutput

\* ------------------------------------------------------------ SignalSource
\* genomic_signal.array(features, **kwargs): one row per feature, in order,
\* one column per bin
SignalArray(src, feats, K) ==
    [src |-> src, rows |-> feats, cols |-> DictGet(K, "bins"), scaled |-> <<>>]

\* arr /= src.million_mapped_reads()
ScaleByMMR(arr, src) == [arr EXCEPT !.scaled = Append(@, src)]

Shape(arr) == <<Len(arr.rows), arr.cols>>

\* -------------------------------------------------------- Chipseq.diff_array
\* dict.pop(key) without a default raises KeyError when the key is missing
PopRaises(D, key) == ~HasKey(D, key)

\* the pops applied to array_kwargs itself, without the copy
StripNoCopy(K) ==
    IF PopRaises(K, "processes")
    THEN [raised |-> TRUE, value |-> K, caller |-> K]
    ELSE LET d1 == DictPop(K, "processes")
         IN  IF PopRaises(d1, "chunksize")
             THEN [raised |-> TRUE, value |-> d1, caller |-> d1]
             ELSE [raised |-> FALSE, value |-> DictPop(d1, "chunksize"),
                   caller |-> DictPop(d1, "chunksize")]

\* the two pops in the other order
StripChunksizeFirst(K) ==
    IF PopRaises(K, "chunksize")
    THEN [raised |-> TRUE, value |-> K, caller |-> K]
    ELSE LET d1 == DictPop(K, "chunksize")
         IN  IF PopRaises(d1, "processes")
             THEN [raised |-> TRUE, value |-> d1, caller |-> K]
             ELSE [raised |-> FALSE, value |-> DictPop(d1, "processes"),
                   caller |-> K]

\* lines 149-151: copy array_kwargs, pop 'processes', pop 'chunksize'.
\* value: what browser_local_coverage_kwargs is bound to when the pops stop;
\* caller: the caller's mapping afterwards (the pops act on the copy)
StripParallelKeys(K) ==
    LET copy == K
    IN  IF PopRaises(copy, "processes")
        THEN [raised |-> TRUE, value |-> copy, caller |-> K]
        ELSE LET d1 == DictPop(copy, "processes")
             IN  IF PopRaises(d1, "chunksize")
                 THEN [raised |-> TRUE, value |-> d1, caller |-> K]
                 ELSE [raised |-> FALSE, value |-> DictPop(d1, "chunksize"),
                       caller |-> K]

\* the cache ignored: every call queries again
NeedsQueryAlways(arr, force) == TRUE

\* (self.ip_array is None) or force
NeedsQuery(arr, force) == arr = None \/ force

\* lines 153-155 (src = "ip") and 157-159 (src = "control"): query the
\* array and scale it in place, unless a cached one is reused.  The array
\* call may raise (fail names the call that does).
QueryStage(src, arr, force, feats, K, fail) ==
    LET acall == [src |-> src, features |-> feats, kwargs |-> K]
        raw == SignalArray(src, feats, K)
    IN  IF ~NeedsQuery(arr, force)
        THEN [arr |-> arr, raised |-> FALSE, array_calls |-> <<>>,
              mmr_calls |-> <<>>]
        ELSE IF fail = IF src = "ip" THEN "ip.array" ELSE "control.array"
        THEN [arr |-> arr, raised |-> TRUE, array_calls |-> <<acall>>,
              mmr_calls |-> <<>>]
        ELSE [arr |-> <<ScaleByMMR(raw, src)>>, raised |-> FALSE,
              array_calls |-> <<acall>>, mmr_calls |-> <<src>>]

\* numpy broadcasting of two 2-D shapes: a dimension pairs with an equal
\* one or with 1
Broadcastable(s1, s2) ==
    \A d \in 1..2 : s1[d] = s2[d] \/ s1[d] = 1 \/ s2[d] = 1

BroadcastShape(s1, s2) == [d \in 1..2 |-> IF s1[d] = 1 THEN s2[d] ELSE s1[d]]

\* line 161-163: func(self.ip_array - self.control_array)
Diffed(func, ip, control) ==
    [func |-> IF func = "None" THEN "nice_log" ELSE func,
     ip |-> ip, control |-> control,
     shape |-> BroadcastShape(Shape(ip), Shape(control))]

diff_array(feats, force, func, K, fail) ==
    LET strip == StripParallelKeys(K)
        kw == strip.caller
        ipS == QueryStage("ip", ip_array, force, feats, kw, fail)
        ctS == QueryStage("control", control_array, force, feats, kw, fail)
        call == [NoCall EXCEPT !.op = "diff_array", !.features = feats,
                    !.force = force,
                    !.array_kwargs = K, !.array_kwargs_after = strip.caller]
    IN  /\ nops < MaxOps
        /\ nops' = nops + 1
        /\ features' = <<feats>>
        /\ browser_local_coverage_kwargs' = <<strip.value>>
        /\ UNCHANGED <<minibrowser, db, figs, shift_vars>>
        /\ IF strip.raised
           THEN /\ fail = "none"
                /\ UNCHANGED <<ip_array, control_array, diffed_array>>
                /\ last' = [call EXCEPT !.outcome = "KeyError"]
           ELSE IF ipS.raised
           THEN /\ ip_array' = ipS.arr
                /\ UNCHANGED <<control_array, diffed_array>>
                /\ last' = [call EXCEPT !.outcome = "SignalError",
                               !.array_calls = ipS.array_calls,
                               !.mmr_calls = ipS.mmr_calls]
           ELSE IF ctS.raised
           THEN /\ ip_array' = ipS.arr
                /\ control_array' = ctS.arr
                /\ UNCHANGED diffed_array
                /\ last' = [call EXCEPT !.outcome = "SignalError",
                               !.array_calls = ipS.array_calls \o ctS.array_calls,
                               !.mmr_calls = ipS.mmr_calls \o ctS.mmr_calls]
           ELSE /\ fail = "none"
                /\ ip_array' = ipS.arr
                /\ control_array' = ctS.arr
                /\ IF Broadcastable(Shape(ipS.arr[1]), Shape(ctS.arr[1]))
                   THEN /\ diffed_array' = <<Diffed(func, ipS.arr[1], ctS.arr[1])>>
                        /\ last' = [call EXCEPT
                               !.array_calls = ipS.array_calls \o ctS.array_calls,
                               !.mmr_calls = ipS.mmr_calls \o ctS.mmr_calls]
                   ELSE /\ UNCHANGED diffed_array
                        /\ last' = [call EXCEPT !.outcome = "ValueError",
                               !.array_calls = ipS.array_calls \o ctS.array_calls,
                               !.mmr_calls = ipS.mmr_calls \o ctS.mmr_calls]

DiffArray ==
    \E feats \in FeatureLists, force \in BOOLEAN, func \in FuncChoices,
       K \in KwargsChoices, fail \in FailPoints :
        diff_array(feats, force, func, K, fail)

\* ------------------------------------------------------------- Chipseq.plot
\* np.arange(nrows)
Arange(n) == [k \in 1..n |-> k - 1]

\* lines 174-193: the heatmap shows self.diffed_array[row_order] over the
\* extent (min(x), max(x), 0, nrows), first image row on top; the strip has
\* one point per row, point i at height i + 0.5; the strip line is bound to
\* self.features and row_order
Figure(feats, diffed, row_order) ==
    LET nrows == diffed.shape[1]
        order == IF row_order = None THEN Arange(nrows) ELSE row_order
    IN  [line |-> [features |-> feats, ind |-> order, nrows |-> nrows],
         image |-> [k \in 1..Len(order) |-> order[k]],
         matrix |-> diffed]

\* the diff-matrix row the heatmap draws at the height of strip point i:
\* image row k (0-based, from the top) covers the heights nrows-k-1..nrows-k
MatrixRowAtStripPoint(fig, i) == At0(fig.image, fig.line.nrows - 1 - i)

\* lines 200-210: the detail view, by whether a gene database was given
MiniBrowser(hasdb, local_coverage_kwargs) ==
    [variant |-> IF hasdb THEN "GeneChipseqMiniBrowser"
                 ELSE "SignalChipseqMiniBrowser",
     local_coverage_kwargs |-> local_coverage_kwargs]

plot(row_order) ==
    /\ nops < MaxOps
    /\ nops' = nops + 1
    /\ UNCHANGED <<features, browser_local_coverage_kwargs, ip_array,
                   control_array, diffed_array, db, shift_vars>>
    /\ IF diffed_array = None
       THEN \* line 174: no diffed_array attribute before the first diff_array
            /\ row_order = None
            /\ UNCHANGED <<figs, minibrowser>>
            /\ last' = [NoCall EXCEPT !.op = "plot",
                           !.outcome = "AttributeError"]
       ELSE /\ row_order \in RowOrderChoices(diffed_array[1].shape[1])
            /\ figs' = Append(figs, Figure(features[1], diffed_array[1], row_order))
            /\ minibrowser' =
                   <<MiniBrowser(db, browser_local_coverage_kwargs[1])>>
            /\ last' = [NoCall EXCEPT !.op = "plot", !.row_order = row_order,
                           !.fig = Len(figs) + 1]

Plot ==
    \E row_order \in UNION {RowOrderChoices(n) : n \in RowCounts} :
        plot(row_order)

\* --------------------------------------------------------- Chipseq.callback
\* the guard off by one
OverselectedAboveNext(ind) == Len(ind) > limit + 1

\* line 230: len(event.ind) > limit
Overselected(ind) == Len(ind) > limit

\* lines 233-237: the loop over event.ind.  acc holds what was printed, the
\* minibrowser.plot calls made and how the loop ended; the failAt-th
\* minibrowser.plot call raises (0: none does)
RECURSIVE Dispatch(_, _, _, _, _)
Dispatch(line, ev, browser, failAt, acc) ==
    IF ev = <<>> THEN acc
    ELSE LET i == Head(ev)
             rev == Reverse(line.ind)
         IN  IF ~Len0Ok(rev, i) \/ ~Len0Ok(line.features, At0(rev, i))
             THEN [acc EXCEPT !.outcome = "IndexError"]
             ELSE LET feature == At0(line.features, At0(rev, i))
                      acc1 == [acc EXCEPT !.printed = Append(@, feature)]
                      acc2 == [acc1 EXCEPT !.plots = Append(@, feature)]
                  IN  IF ~browser
                      THEN Dispatch(line, Tail(ev), browser, failAt, acc1)
                      ELSE IF Len(acc2.plots) = failAt
                      THEN [acc2 EXCEPT !.outcome = "PlotError"]
                      ELSE Dispatch(line, Tail(ev), browser, failAt, acc2)

callback(f, ind, failAt) ==
    LET line == figs[f].line
        notice == Overselected(ind)
        r == Dispatch(line, ind, ~notice, failAt,
                      [printed |-> <<>>, plots |-> <<>>, outcome |-> "ok"])
    IN  /\ nops < MaxOps
        /\ nops' = nops + 1
        /\ failAt = 0 \/ r.outcome = "PlotError"
        /\ UNCHANGED <<features, browser_local_coverage_kwargs, ip_array,
                       control_array, diffed_array, minibrowser, db, figs,
                       shift_vars>>
        /\ last' = [NoCall EXCEPT !.op = "callback", !.outcome = r.outcome,
                       !.fig = f, !.ind = ind, !.notice = notice,
                       !.printed = r.printed, !.plots = r.plots]

Callback ==
    \E f \in 1..Len(figs) :
        \E ind \in IndChoices(figs[f].line.nrows), failAt \in 0..limit :
            callback(f, ind, failAt)

Next ==
    \/ DiffArray
    \/ Plot
    \/ Callback

Spec == Init /\ [][Next]_vars

\* ------------------------------------------------------------------ xcorr
RECURSIVE SumTo(_, _)
\* sum of the first n entries of a vector
SumTo(v, n) == IF n = 0 THEN 0 ELSE SumTo(v, n - 1) + v[n]

\* plus.sum(axis=1), one row
RowSum(v) == SumTo(v, Len(v))

\* np.dot(x, y)
Dot(x, y) == SumTo([n \in 1..Len(x) |-> x[n] * y[n]], Len(x))

\* np.correlate(x, y, mode=2) on equal-length vectors: the full
\* cross-correlation, entry j (1-based) at lag j - len(x)
Correlate(x, y) ==
    LET L == Len(x)
    IN  [j \in 1..(2 * L - 1) |->
            SumTo([n \in 1..L |->
                      IF n + j - L >= 1 /\ n + j - L <= L
                      THEN x[n + j - L] * y[n] ELSE 0], L)]

\* c /= np.sqrt(np.dot(x, x) * np.dot(y, y)): the entry num / sqrt(den2) is
\* kept as the pair <<num, den2>>
Normalize(c, x, y) == [j \in 1..Len(c) |-> <<c[j], Dot(x, x) * Dot(y, y)>>]

\* Python's c[a:b]: a negative bound counts from the end, bounds are clipped
PySlice(c, a, b) ==
    LET n == Len(c)
        clip(i) == IF i < 0 THEN (IF i + n < 0 THEN 0 ELSE i + n)
                   ELSE (IF i > n THEN n ELSE i)
    IN  IF clip(a) < clip(b) THEN SubSeq(c, clip(a) + 1, clip(b)) ELSE <<>>

\* lines 359-371
xcorr(x, y, maxlags) ==
    LET xlen == Len(x)
        c == Normalize(Correlate(x, y), x, y)
    IN  PySlice(c, xlen - 1 - maxlags, xlen + maxlags)

\* --------------------------------------------------------- estimate_shift
\* lines 287-288: thresh=None means 0; a threshold is a fraction <<num, den>>
EffectiveThresh(thresh) == IF thresh = None THEN <<0, 1>> ELSE thresh

\* lines 293-299: array_kwargs=None means {}; 'read_strand' is dropped and
\* 'bins' defaults to windowsize
EffectiveKwargs(array_kwargs, windowsize) ==
    LET given == IF array_kwargs = None THEN {} ELSE array_kwargs[1]
        popped == DictPop(given, "read_strand")
    IN  IF HasKey(popped, "bins") THEN popped
        ELSE popped \cup {<<"bins", windowsize>>}

\* either strand above the threshold
EnoughEitherStrand(p, m, windowsize, thresh) ==
    \/ RowSum(p) * thresh[2] > thresh[1] * windowsize
    \/ RowSum(m) * thresh[2] > thresh[1] * windowsize

\* lines 335-336, one window: (sum / windowsize) > thresh on both strands
Enough(p, m, windowsize, thresh) ==
    /\ RowSum(p) * thresh[2] > thresh[1] * windowsize
    /\ RowSum(m) * thresh[2] > thresh[1] * windowsize

\* the boolean vector enough, one entry per window
EnoughMask(plus, minus, windowsize, thresh) ==
    [j \in 1..Len(plus) |-> Enough(plus[j], minus[j], windowsize, thresh)]

RECURSIVE Select(_, _)
\* rows[mask]: the rows whose mask entry is true, in their order
Select(rows, mask) ==
    IF rows = <<>> THEN <<>>
    ELSE (IF Head(mask) THEN <<Head(rows)>> ELSE <<>>)
         \o Select(Tail(rows), Tail(mask))

\* results[i] = row (line 345): numpy copies a row of the right length,
\* broadcasts a row of length 1 and raises ValueError otherwise
RowAssign(ncols, row) ==
    IF Len(row) = ncols THEN [raised |-> FALSE, row |-> row]
    ELSE IF Len(row) = 1
    THEN [raised |-> FALSE, row |-> [k \in 1..ncols |-> row[1]]]
    ELSE [raised |-> TRUE, row |-> <<>>]

\* lines 334-349 on the arrays signal.array returned for the two strands
estimate_shift(plus, minus, windowsize, thresh, maxlag) ==
    LET th == EffectiveThresh(thresh)
        enough == EnoughMask(plus, minus, windowsize, th)
        px == Select(plus, enough)
        my == Select(minus, enough)
        ncols == 2 * maxlag + 1
        rows == [i \in 1..Len(px) |-> RowAssign(ncols, xcorr(px[i], my[i], maxlag))]
        lags == [k \in 1..ncols |-> k - 1 - maxlag]
    IN  IF \E i \in 1..Len(px) : rows[i].raised
        THEN [NoShiftOutput EXCEPT !.op = "estimate_shift",
                                   !.outcome = "ValueError"]
        ELSE [NoShiftOutput EXCEPT !.op = "estimate_shift", !.lags = lags,
                 !.results = [i \in 1..Len(px) |-> rows[i].row]]

\* ----------------------------------------------- inputs of estimate_shift
\* read counts along one window
Vec(kind, L) ==
    [i \in 1..L |->
        CASE kind = "zeros" -> 0
          [] kind = "ones" -> 1
          [] kind = "impulse" -> (IF i = 1 THEN 1 ELSE 0)
          [] kind = "ramp" -> i]

\* plus-strand and minus-strand coverage of one window
WindowKinds ==
    {<<"ones", "ones">>, <<"ones", "zeros">>, <<"zeros", "ones">>,
     <<"impulse", "ramp">>, <<"ramp", "impulse">>}

ShiftKwargsChoices ==
    {None, <<{<<"read_strand", 0>>}>>}
        \cup {<<{<<"bins", b>>}>> : b \in 1..MaxLen}

ThreshChoices == {None} \cup {<<n, 2>> : n \in 0..MaxThresh}

\* signal.array(features=windows, read_strand=.., **array_kwargs): one row
\* per window, 'bins' columns
StrandArrays(kinds, L) ==
    [plus |-> [j \in 1..Len(kinds) |-> Vec(kinds[j][1], L)],
     minus |-> [j \in 1..Len(kinds) |-> Vec(kinds[j][2], L)]]

ShiftInputs ==
    {[plus |-> StrandArrays(kinds, DictGet(EffectiveKwargs(kw, ws), "bins")).plus,
      minus |-> StrandArrays(kinds, DictGet(EffectiveKwargs(kw, ws), "bins")).minus,
      windowsize |-> ws, thresh |-> th, maxlag |-> ml, array_kwargs |-> kw] :
        kinds \in UNION {[1..n -> WindowKinds] : n \in 0..MaxWindows},
        ws \in 1..MaxLen, th \in ThreshChoices, ml \in 0..MaxLag,
        kw \in ShiftKwargsChoices}

InitShift ==
    /\ features = None
    /\ browser_local_coverage_kwargs = None
    /\ ip_array = None
    /\ control_array = None
    /\ diffed_array = None
    /\ minibrowser = None
    /\ db = FALSE
    /\ figs = <<>>
    /\ nops = 0
    /\ last = NoCall
    /\ shift_in \in ShiftInputs
    /\ shift_out = NoShiftOutput

\* xcorr on one window's two strands
CallXcorr ==
    \E j \in 1..Len(shift_in.plus) :
        /\ shift_out' = [NoShiftOutput EXCEPT !.op = "xcorr",
               !.x = shift_in.plus[j], !.y = shift_in.minus[j],
               !.c = xcorr(shift_in.plus[j], shift_in.minus[j], shift_in.maxlag)]
        /\ UNCHANGED <<shift_in, chipseq_vars>>

CallEstimateShift ==
    /\ shift_out' = estimate_shift(shift_in.plus, shift_in.minus,
                                   shift_in.windowsize, shift_in.thresh,
                                   shift_in.maxlag)
    /\ UNCHANGED <<shift_in, chipseq_vars>>

NextShift ==
    \/ CallXcorr
    \/ CallEstimateShift

SpecShift == InitShift /\ [][NextShift]_vars

\* ======================================================== properties, Spec
\* the mapping K without the two parallelism keys
WithoutParallelKeys(K) == {p \in K : p[1] \notin {"processes", "chunksize"}}

HasBothParallelKeys(K) == HasKey(K, "processes") /\ HasKey(K, "chunksize")

\* the feature whose signal row r (0-based) of a diff matrix holds: the row
\* is ip row r minus control row r
RowFeatures(diffed, r) ==
    <<At0(diffed.ip.rows, IF Len(diffed.ip.rows) = 1 THEN 0 ELSE r),
      At0(diffed.control.rows, IF Len(diffed.control.rows) = 1 THEN 0 ELSE r)>>

\* C1: a selection event with more than 5 indices makes no detail-view plot
\* call, emits the overselection notice and leaves features, the figures'
\* row-order binding, the arrays and the minibrowser as they were, so a later
\* event is dispatched from the same state as before the rejected one.
C1_OverselectionRejected ==
    [][(last'.op = "callback" /\ Len(last'.ind) > 5) =>
           /\ last'.plots = <<>>
           /\ last'.notice
           /\ UNCHANGED <<features, browser_local_coverage_kwargs, ip_array,
                          control_array, diffed_array, minibrowser, figs>>
           /\ \A f \in 1..Len(figs) :
                  \A ind \in IndChoices(figs[f].line.nrows) :
                      Dispatch(figs'[f].line, ind, Len(ind) <= 5, 0,
                               [printed |-> <<>>, plots |-> <<>>, outcome |-> "ok"])
                      = Dispatch(figs[f].line, ind, Len(ind) <= 5, 0,
                               [printed |-> <<>>, plots |-> <<>>, outcome |-> "ok"])
      ]_vars

\* six strip points were selected at once and the event was rejected
C1_Witness ==
    /\ last.op = "callback"
    /\ Len(last.ind) = 6
    /\ last.notice
    /\ last.plots = <<>>
    /\ Len(last.printed) = 6

\* C2: a selection event with k <= 5 indices makes exactly one detail-view
\* plot call per index, in the event's order, and for strip point i of n rows
\* passes features[row_order[n-1-i]], the feature whose diff-matrix row the
\* heatmap draws at the height of that point.
C2_OnePlotPerIndexInOrder ==
    (last.op = "callback" /\ Len(last.ind) <= 5) =>
        LET fig == figs[last.fig]
            n == fig.line.nrows
        IN  /\ Len(last.plots) = Len(last.ind)
            /\ \A k \in 1..Len(last.ind) :
                   LET i == last.ind[k]
                       feature == At0(fig.line.features,
                                      At0(fig.line.ind, n - 1 - i))
                   IN  /\ last.plots[k] = feature
                       /\ RowFeatures(fig.matrix, MatrixRowAtStripPoint(fig, i))
                              = <<feature, feature>>

\* C3: when the detail-view plot of one selected feature raises, the plot of
\* every remaining selected feature of the event is still attempted.
C3_PlotFailureDoesNotStopTheRest ==
    (last.op = "callback" /\ Len(last.ind) <= 5 /\ last.outcome = "PlotError")
        => Len(last.plots) = Len(last.ind)

\* C6: after every completed diff_array call the three arrays have one row
\* per entry of self.features, row i holding the signal of self.features[i].
C6_ArraysAlignedWithFeatures ==
    (last.op = "diff_array" /\ last.outcome = "ok") =>
        /\ ip_array[1].rows = features[1]
        /\ control_array[1].rows = features[1]
        /\ diffed_array[1].shape[1] = Len(features[1])
        /\ \A r \in 0..(Len(features[1]) - 1) :
               RowFeatures(diffed_array[1], r)
                   = <<At0(features[1], r), At0(features[1], r)>>

\* C7: diffed_array is never computed from an ip_array and a control_array
\* of different shapes: such a call aborts with an error.
C7_NoDiffOfMismatchedShapes ==
    /\ diffed_array # None =>
           Shape(diffed_array[1].ip) = Shape(diffed_array[1].control)
    /\ (last.op = "diff_array" /\ last.outcome = "ok") =>
           Shape(ip_array[1]) = Shape(control_array[1])

\* C8: with force=False and both arrays cached, diff_array makes no
\* SignalSource call, leaves ip_array and control_array as they are and only
\* recomputes diffed_array from them; a completed call with force=True
\* queries both arrays with the new features and divides each once by its
\* own million_mapped_reads.
C8_CacheReuseAndRequery ==
    [][(last'.op = "diff_array") =>
           /\ (~last'.force /\ ip_array # None /\ control_array # None) =>
                  /\ last'.array_calls = <<>>
                  /\ last'.mmr_calls = <<>>
                  /\ ip_array' = ip_array
                  /\ control_array' = control_array
                  /\ last'.outcome = "ok" =>
                         /\ diffed_array'[1].ip = ip_array[1]
                         /\ diffed_array'[1].control = control_array[1]
                  /\ last'.outcome # "ok" => diffed_array' = diffed_array
           /\ (last'.force /\ last'.outcome = "ok") =>
                  /\ [k \in 1..Len(last'.array_calls) |->
                         <<last'.array_calls[k].src, last'.array_calls[k].features>>]
                         = << <<"ip", last'.features>>, <<"control", last'.features>> >>
                  /\ last'.mmr_calls = <<"ip", "control">>
                  /\ ip_array'[1].rows = last'.features
                  /\ control_array'[1].rows = last'.features
                  /\ ip_array'[1].scaled = <<"ip">>
                  /\ control_array'[1].scaled = <<"control">>
                  /\ diffed_array'[1].ip = ip_array'[1]
                  /\ diffed_array'[1].control = control_array'[1]
      ]_vars

\* a force=False call reused both cached arrays of an earlier call, made for
\* another feature list
C8_Witness ==
    /\ last.op = "diff_array"
    /\ ~last.force
    /\ last.outcome = "ok"
    /\ last.array_calls = <<>>
    /\ ip_array[1].rows # last.features
    /\ ip_array[1].scaled = <<"ip">>
    /\ control_array[1].scaled = <<"control">>

\* C9: after a completed diff_array call whose array_kwargs K holds both
\* 'processes' and 'chunksize', every SignalSource.array call received K in
\* full (both calls under force=True), browser_local_coverage_kwargs is K
\* without exactly these two keys, the caller's K is unchanged, and the
\* detail view built by a plot call that follows receives that stripped
\* mapping.
C9_ParallelKeysStrippedForDetailView ==
    [][/\ (last'.op = "diff_array" /\ last'.outcome = "ok"
              /\ HasBothParallelKeys(last'.array_kwargs)) =>
              /\ \A k \in 1..Len(last'.array_calls) :
                     last'.array_calls[k].kwargs = last'.array_kwargs
              /\ last'.force => Len(last'.array_calls) = 2
              /\ browser_local_coverage_kwargs'
                     = <<WithoutParallelKeys(last'.array_kwargs)>>
              /\ last'.array_kwargs_after = last'.array_kwargs
       /\ (last.op = "diff_array" /\ last.outcome = "ok"
              /\ HasBothParallelKeys(last.array_kwargs)
              /\ last'.op = "plot") =>
              /\ last'.outcome = "ok"
              /\ minibrowser'[1].local_coverage_kwargs
                     = WithoutParallelKeys(last.array_kwargs)
      ]_vars

\* the first call, diff_array, queried both arrays; the second, plot, built
\* the detail view with the stripped mapping
C9_Witness ==
    /\ nops = 2
    /\ last.op = "plot"
    /\ last.outcome = "ok"
    /\ ip_array # None
    /\ control_array # None
    /\ browser_local_coverage_kwargs = <<{<<"bins", 100>>}>>
    /\ minibrowser[1].local_coverage_kwargs = {<<"bins", 100>>}

\* C10: a diff_array call whose array_kwargs lacks 'processes' or
\* 'chunksize' fails before any SignalSource.array call and leaves the three
\* arrays as they were, but has replaced self.features by the new list and
\* rebound browser_local_coverage_kwargs.
C10_KeyErrorIsNotStateNeutral ==
    [][(last'.op = "diff_array" /\ ~HasBothParallelKeys(last'.array_kwargs)) =>
           /\ last'.outcome = "KeyError"
           /\ last'.array_calls = <<>>
           /\ last'.mmr_calls = <<>>
           /\ UNCHANGED <<ip_array, control_array, diffed_array>>
           /\ features' = <<last'.features>>
           /\ browser_local_coverage_kwargs' =
                  <<IF HasKey(last'.array_kwargs, "processes")
                    THEN {p \in last'.array_kwargs : p[1] # "processes"}
                    ELSE last'.array_kwargs>>
      ]_vars

\* a failed call left the arrays of an earlier call for another feature list
\* and a rebound browser_local_coverage_kwargs that still holds 'chunksize'
C10_Witness ==
    /\ last.op = "diff_array"
    /\ last.outcome = "KeyError"
    /\ diffed_array # None
    /\ ip_array[1].rows # features[1]
    /\ HasKey(browser_local_coverage_kwargs[1], "chunksize")

\* =================================================== properties, SpecShift
\* a window's average coverage on one strand is strictly above the threshold
\* (thresh=None counts as 0)
AboveThresh(v) ==
    LET th == IF shift_in.thresh = None THEN <<0, 1>> ELSE shift_in.thresh
    IN  RowSum(v) * th[2] > th[1] * shift_in.windowsize

\* the windows with both strands above the threshold
PassingWindows ==
    {j \in 1..Len(shift_in.plus) :
        AboveThresh(shift_in.plus[j]) /\ AboveThresh(shift_in.minus[j])}

\* the j-th smallest member of a set of numbers
Nth(S, j) == CHOOSE w \in S : Cardinality({v \in S : v < w}) = j - 1

\* the cross-correlation of x and y at one lag, by its definition
LagCorrelation(x, y, lag) ==
    SumTo([n \in 1..Len(x) |->
              IF n + lag >= 1 /\ n + lag <= Len(x) THEN x[n + lag] * y[n] ELSE 0],
          Len(x))

C5_AlwaysTwoMaxlagPlusOneColumns ==
    /\ shift_out.op = "xcorr" =>
           /\ Len(shift_out.c) = 2 * shift_in.maxlag + 1
           /\ \A k \in 1..Len(shift_out.c) :
                  shift_out.c[k][1]
                      = LagCorrelation(shift_out.x, shift_out.y,
                                       k - 1 - shift_in.maxlag)
    /\ shift_out.op = "estimate_shift" =>
           /\ shift_out.outcome = "ok"
           /\ Len(shift_out.lags) = 2 * shift_in.maxlag + 1
           /\ \A j \in 1..Len(shift_out.results) :
                  Len(shift_out.results[j]) = 2 * shift_in.maxlag + 1

====
